---- MODULE Spec2Model ----
\* XZip licence server (key registry, validateKey, /authorize, /admin/addkey,
\* /admin/stats) and the XZip client gate (initKeyFile, validateAuth, main).
\* Time is counted in hours: one Tick of the clock is one hour.
EXTENDS Integers, Sequences, FiniteSets, TLC

\* ---------------------------------------------------------------- bounds
\* last clock value the model lets the clock reach
MaxTime == 2
\* largest maxUsage of a record drawn for the registry-level specification
MaxQuota == 2
\* entries of an archive handed to extractFromZip from elsewhere
MaxEntries == 2

\* request tasks of the HTTP server: one goroutine per inbound request, each
\* serving that one request
Tasks == {"t1", "t2"}
\* key strings generateRandomKey can return (hex strings)
GenKeys == {"k1", "k2"}
\* key strings a caller can submit: the generated ones and the empty string,
\* which is never generated
KeyStrings == GenKeys \cup {""}

\* ------------------------------------------------------- program constants
Hour == 1
YearOffset == 365 * 24 * Hour
ExpiredOffset == 0 - 24 * Hour
TestMaxUsage == 1000
InvalidMaxUsage == 100
IssueMaxUsage == 1000
Accept == 1
StatusNotFound_Accepted == Accept
StatusNotFound == -1
StatusDisabled == -1
StatusExpired_Distinct == StatusNotFound - 1
StatusExpired == -1
StatusExceeded == -1
StatusMalformed_Accepted == Accept
StatusMalformed == -1
\* net/http status codes written by the handlers
StatusOK == 200
StatusMethodNotAllowed == 405

VARIABLES
  db,        \* keyDatabase: key string -> KeyInfo
  now,       \* the clock time.Now() reads
  writer,    \* dbMutex: the task holding it exclusively, or "none"
  readers,   \* dbMutex: the tasks holding it shared
  mainpc,    \* position of the server's main()
  pc,        \* position of each request task
  loc,       \* locals of each request task
  log,       \* history: the validateKey calls that returned, in return order
  db0        \* history: the registry when the server started serving

svars == <<db, now, writer, readers, mainpc, pc, loc, log, db0>>

VARIABLES
  cpc,       \* position of the client's main()
  variant,   \* which client binary runs: "password" or "plain"
  argv,      \* os.Args[1:]
  keyFile,   \* ~/.xzip/key: whether it is missing, unreadable or present, and its content
  authKey,   \* the key readAuthKey returned
  resp,      \* the HTTP response client.Post returned
  authResp,  \* the AuthResponse json.Unmarshal filled in
  sent,      \* the endpoints the key was transmitted to
  failure,   \* why the run refused to go on, or "none"
  op         \* the archive operation that was started, or "none"

cvars == <<cpc, variant, argv, keyFile, authKey, resp, authResp, sent, failure, op>>

\* compressToZip / extractFromZip and the files they work on
VARIABLES
  zpc,       \* "off", "compress", "open", "extract" or "done"
  srcTree,   \* the directory tree under `source` given to compressToZip
  zpwC,      \* password given to compressToZip ("" = none)
  zpwX,      \* password given to extractFromZip ("" = none)
  zarchive,  \* reader.File: the entries of the archive, in order
  zidx,      \* index of the entry the loop of extractFromZip is at
  fs,        \* the file system extractFromZip writes to: path -> node
  touched,   \* paths extractFromZip has created or overwritten
  zerr       \* "none" or the error extractFromZip returned

zvars == <<zpc, srcTree, zpwC, zpwX, zarchive, zidx, fs, touched, zerr>>
vars == <<svars, cvars, zvars>>

\* ------------------------------------------------------------- helpers
Min(a, b) == IF a < b THEN a ELSE b

\* time.Time.After / time.Time.Before
After(t, u) == t > u
Before_OrEqual(t, u) == t <= u
Before(t, u) == t < u

KeyInfo(valid, createdAt, expiresAt, usageCount, maxUsage) ==
  [valid |-> valid, createdAt |-> createdAt, expiresAt |-> expiresAt,
   usageCount |-> usageCount, maxUsage |-> maxUsage]

\* keyDatabase[key] = info
Insert(reg, key, info) ==
  [k \in DOMAIN reg \cup {key} |-> IF k = key THEN info ELSE reg[k]]

EmptyDb == [k \in {} |-> KeyInfo(FALSE, 0, 0, 0, 0)]
EmptyTimes == [k \in {} |-> 0]

\* sum of UsageCount over the records of keys
RECURSIVE SumUsage(_, _)
SumUsage(reg, keys) ==
  IF keys = {} THEN 0
  ELSE LET k == CHOOSE x \in keys : TRUE
       IN reg[k].usageCount + SumUsage(reg, keys \ {k})

NoLocals ==
  [key |-> "", status |-> 0, at |-> 0, pre |-> EmptyDb, newKey |-> "",
   totalKeys |-> 0, validKeys |-> 0, totalUsage |-> 0, todo |-> {},
   visitAt |-> EmptyTimes, resp |-> "none", cause |-> "none", http |-> 0]

\* ---------------------------------------------------------- dbMutex
\* Lock() succeeds when no task holds the mutex in either mode
LockFree_Racy == TRUE
LockFree == writer = "none" /\ readers = {}
\* RLock() succeeds when no task holds the mutex exclusively
RLockFree_Racy == TRUE
RLockFree == writer = "none"
\* Unlock() by the holder t: the mutex has no exclusive holder afterwards
Unlock_Leaked(t) == t
Unlock(t) == "none"

\* ---------------------------------------------------------- validateKey
Exists(reg, key) == key \in DOMAIN reg
Disabled_Ignored(info) == FALSE
Disabled(info) == ~info.valid
Expired(info, t) == After(t, info.expiresAt)
UsageExceeded_Gt(info) == info.usageCount > info.maxUsage
UsageExceeded(info) == info.usageCount >= info.maxUsage
IncrementUsage_Twice(info) == [info EXCEPT !.usageCount = @ + 2]
IncrementUsage_Forgotten(info) == info
IncrementUsage(info) == [info EXCEPT !.usageCount = @ + 1]

\* the checks of validateKey in source order; "ok" when all pass
Decide(reg, key, t) ==
  IF ~Exists(reg, key) THEN "notfound"
  ELSE IF Disabled(reg[key]) THEN "disabled"
  ELSE IF Expired(reg[key], t) THEN "expired"
  ELSE IF UsageExceeded(reg[key]) THEN "exceeded"
  ELSE "ok"

RejectStatus(out) ==
  CASE out = "notfound" -> StatusNotFound
    [] out = "disabled" -> StatusDisabled
    [] out = "expired" -> StatusExpired
    [] out = "exceeded" -> StatusExceeded

\* ------------------------------------------------------------- clock
Tick ==
  /\ now < MaxTime
  /\ now' = now + 1
  /\ UNCHANGED <<db, writer, readers, mainpc, pc, loc, log, db0, cvars, zvars>>

\* ------------------------------------------------- main: initTestKeys
\* the valid test key
InitTestKey ==
  /\ mainpc = "seed_valid"
  /\ \E testKey \in GenKeys :
       db' = Insert(db, testKey, KeyInfo(TRUE, now, now + YearOffset, 0, TestMaxUsage))
  /\ mainpc' = "seed_invalid"
  /\ UNCHANGED <<now, writer, readers, pc, loc, log, db0, cvars, zvars>>

\* the disabled, already expired test key; then the server starts listening
InitInvalidKey ==
  /\ mainpc = "seed_invalid"
  /\ \E invalidKey \in GenKeys :
       db' = Insert(db, invalidKey, KeyInfo(FALSE, now, now + ExpiredOffset, 0, InvalidMaxUsage))
  /\ mainpc' = "serving"
  /\ db0' = db'
  /\ UNCHANGED <<now, writer, readers, pc, loc, log, cvars, zvars>>

\* ----------------------------------------------- /authorize, validateKey
\* r.Method of a request to /authorize
Methods == {"POST", "GET", "OPTIONS"}

\* r.Body: a JSON text, described by what json.Decoder sees in it
ReqBody(json, keyType, key) == [json |-> json, keyType |-> keyType, key |-> key]
ReqBodies ==
  {ReqBody(j, "absent", "") : j \in {"empty", "garbage", "array", "null", "object"}}
    \cup {ReqBody("object", "number", "")}
    \cup {ReqBody("object", "string", k) : k \in KeyStrings}

\* json.NewDecoder(r.Body).Decode(&authReq) with AuthRequest{Key string}
DecodeError(body) ==
  \/ body.json \in {"empty", "garbage", "array"}
  \/ body.json = "object" /\ body.keyType = "number"
DecodedKey(body) ==
  IF body.json = "object" /\ body.keyType = "string" THEN body.key ELSE ""

\* authorizeHandler up to the call of validateKey
AuthorizeBegin(t) ==
  /\ mainpc = "serving" /\ pc[t] = "idle"
  /\ \E method \in Methods, body \in ReqBodies :
       \/ /\ method = "OPTIONS"
          /\ loc' = [loc EXCEPT ![t] = [NoLocals EXCEPT !.resp = "preflight", !.http = StatusOK]]
          /\ pc' = [pc EXCEPT ![t] = "ah_respond"]
       \/ /\ method \notin {"OPTIONS", "POST"}
          /\ loc' = [loc EXCEPT ![t] = [NoLocals EXCEPT !.resp = "text", !.http = StatusMethodNotAllowed]]
          /\ pc' = [pc EXCEPT ![t] = "ah_respond"]
       \/ /\ method = "POST" /\ DecodeError(body)
          /\ loc' = [loc EXCEPT ![t] = [NoLocals EXCEPT !.cause = "malformed", !.status = StatusMalformed,
                                                        !.resp = "status", !.http = StatusOK]]
          /\ pc' = [pc EXCEPT ![t] = "ah_respond"]
       \/ /\ method = "POST" /\ ~DecodeError(body)
          /\ loc' = [loc EXCEPT ![t] = [NoLocals EXCEPT !.key = DecodedKey(body)]]
          /\ pc' = [pc EXCEPT ![t] = "vk_lock"]
  /\ UNCHANGED <<db, now, writer, readers, mainpc, log, db0, cvars, zvars>>

\* dbMutex.Lock()
VkLock(t) ==
  /\ pc[t] = "vk_lock"
  /\ LockFree
  /\ writer' = t
  /\ pc' = [pc EXCEPT ![t] = "vk_check"]
  /\ UNCHANGED <<db, now, readers, mainpc, loc, log, db0, cvars, zvars>>

\* the lookup and the three checks; the clock is read once
VkCheck(t) ==
  /\ pc[t] = "vk_check"
  /\ LET out == Decide(db, loc[t].key, now) IN
       /\ loc' = [loc EXCEPT ![t].at = now, ![t].pre = db, ![t].cause = out,
                             ![t].status = IF out = "ok" THEN 0 ELSE RejectStatus(out)]
       /\ pc' = [pc EXCEPT ![t] = IF out = "ok" THEN "vk_incr" ELSE "vk_unlock"]
  /\ UNCHANGED <<db, now, writer, readers, mainpc, log, db0, cvars, zvars>>

\* keyInfo.UsageCount++ ; return 1
VkIncr(t) ==
  /\ pc[t] = "vk_incr"
  /\ db' = [db EXCEPT ![loc[t].key] = IncrementUsage(@)]
  /\ loc' = [loc EXCEPT ![t].status = Accept]
  /\ pc' = [pc EXCEPT ![t] = "vk_unlock"]
  /\ UNCHANGED <<now, writer, readers, mainpc, log, db0, cvars, zvars>>

\* the deferred dbMutex.Unlock() as validateKey returns
VkUnlock(t) ==
  /\ pc[t] = "vk_unlock"
  /\ writer' = Unlock(t)
  /\ log' = Append(log, [key |-> loc[t].key, status |-> loc[t].status,
                         overlap |-> \E u \in Tasks \ {t} :
                                       /\ pc[u] \in {"vk_lock", "vk_check", "vk_incr", "vk_unlock"}
                                       /\ loc[u].key = loc[t].key])
  /\ loc' = [loc EXCEPT ![t].resp = "status", ![t].http = StatusOK]
  /\ pc' = [pc EXCEPT ![t] = "ah_respond"]
  /\ UNCHANGED <<db, now, readers, mainpc, db0, cvars, zvars>>

\* json.NewEncoder(w).Encode(response) of authorizeHandler
AuthorizeRespond(t) ==
  /\ pc[t] = "ah_respond"
  /\ pc' = [pc EXCEPT ![t] = "done"]
  /\ loc' = [loc EXCEPT ![t] = NoLocals]
  /\ UNCHANGED <<db, now, writer, readers, mainpc, log, db0, cvars, zvars>>

\* ------------------------------------------------ /admin/addkey
\* addKeyHandler: newKey := generateRandomKey()
AddKeyBegin(t) ==
  /\ mainpc = "serving" /\ pc[t] = "idle"
  /\ \E method \in Methods, newKey \in GenKeys :
       \/ /\ method # "POST"
          /\ loc' = [loc EXCEPT ![t] = [NoLocals EXCEPT !.resp = "text", !.http = StatusMethodNotAllowed]]
          /\ pc' = [pc EXCEPT ![t] = "ak_respond"]
       \/ /\ method = "POST"
          /\ loc' = [loc EXCEPT ![t] = [NoLocals EXCEPT !.newKey = newKey]]
          /\ pc' = [pc EXCEPT ![t] = "ak_lock"]
  /\ UNCHANGED <<db, now, writer, readers, mainpc, log, db0, cvars, zvars>>

\* dbMutex.Lock()
AkLock(t) ==
  /\ pc[t] = "ak_lock"
  /\ LockFree
  /\ writer' = t
  /\ pc' = [pc EXCEPT ![t] = "ak_insert"]
  /\ UNCHANGED <<db, now, readers, mainpc, loc, log, db0, cvars, zvars>>

\* keyDatabase[newKey] = &KeyInfo{...}: CreatedAt and ExpiresAt are two reads
\* of the clock, which may advance between them
AkInsert(t) ==
  /\ pc[t] = "ak_insert"
  /\ \E later \in now .. Min(now + 1, MaxTime) :
       /\ db' = Insert(db, loc[t].newKey,
                       KeyInfo(TRUE, now, later + YearOffset, 0, IssueMaxUsage))
       /\ now' = later
       /\ loc' = [loc EXCEPT ![t].pre = db, ![t].at = later]
  /\ pc' = [pc EXCEPT ![t] = "ak_unlock"]
  /\ UNCHANGED <<writer, readers, mainpc, log, db0, cvars, zvars>>

\* dbMutex.Unlock()
AkUnlock(t) ==
  /\ pc[t] = "ak_unlock"
  /\ writer' = Unlock(t)
  /\ loc' = [loc EXCEPT ![t].resp = "key", ![t].http = StatusOK]
  /\ pc' = [pc EXCEPT ![t] = "ak_respond"]
  /\ UNCHANGED <<db, now, readers, mainpc, log, db0, cvars, zvars>>

\* json.NewEncoder(w).Encode(response) of addKeyHandler
AddKeyRespond(t) ==
  /\ pc[t] = "ak_respond"
  /\ pc' = [pc EXCEPT ![t] = "done"]
  /\ loc' = [loc EXCEPT ![t] = NoLocals]
  /\ UNCHANGED <<db, now, writer, readers, mainpc, log, db0, cvars, zvars>>

\* ------------------------------------------------ /admin/stats
StatsBegin(t) ==
  /\ mainpc = "serving" /\ pc[t] = "idle"
  /\ loc' = [loc EXCEPT ![t] = NoLocals]
  /\ pc' = [pc EXCEPT ![t] = "st_rlock"]
  /\ UNCHANGED <<db, now, writer, readers, mainpc, log, db0, cvars, zvars>>

\* dbMutex.RLock(); totalKeys := len(keyDatabase); validKeys, totalUsage := 0, 0
StRLock(t) ==
  /\ pc[t] = "st_rlock"
  /\ RLockFree
  /\ readers' = readers \cup {t}
  /\ loc' = [loc EXCEPT ![t].totalKeys = Cardinality(DOMAIN db),
                        ![t].todo = DOMAIN db, ![t].pre = db]
  /\ pc' = [pc EXCEPT ![t] = IF DOMAIN db = {} THEN "st_respond" ELSE "st_iter"]
  /\ UNCHANGED <<db, now, writer, mainpc, log, db0, cvars, zvars>>

\* one iteration of the range loop: the map is visited in any order and the
\* clock is read afresh for every record
StIter(t) ==
  /\ pc[t] = "st_iter"
  /\ \E k \in loc[t].todo :
       /\ loc' = [loc EXCEPT
                    ![t].validKeys = IF db[k].valid /\ Before(now, db[k].expiresAt)
                                     THEN @ + 1 ELSE @,
                    ![t].totalUsage = @ + db[k].usageCount,
                    ![t].todo = @ \ {k},
                    ![t].visitAt = Insert(@, k, now)]
       /\ pc' = [pc EXCEPT ![t] = IF loc[t].todo = {k} THEN "st_respond" ELSE "st_iter"]
  /\ UNCHANGED <<db, now, writer, readers, mainpc, log, db0, cvars, zvars>>

\* json.NewEncoder(w).Encode(response) of statsHandler, the read lock still held
StatsRespond(t) ==
  /\ pc[t] = "st_respond"
  /\ loc' = [loc EXCEPT ![t].resp = "stats"]
  /\ pc' = [pc EXCEPT ![t] = "st_runlock"]
  /\ UNCHANGED <<db, now, writer, readers, mainpc, log, db0, cvars, zvars>>

\* the deferred dbMutex.RUnlock() as statsHandler returns
StRUnlock(t) ==
  /\ pc[t] = "st_runlock"
  /\ readers' = readers \ {t}
  /\ pc' = [pc EXCEPT ![t] = "done"]
  /\ loc' = [loc EXCEPT ![t] = NoLocals]
  /\ UNCHANGED <<db, now, writer, mainpc, log, db0, cvars, zvars>>

\* ------------------------------------------------------- specification
\* before client.Post returned
NoResponse == [received |-> FALSE, TLS |-> [present |-> FALSE, PeerCertificates |-> <<>>],
               body |-> "", readable |-> FALSE]

\* no client runs in the server's specifications
ClientOff ==
  /\ cpc = "off"
  /\ variant = "plain"
  /\ argv = <<>>
  /\ keyFile = [state |-> "missing", content |-> <<>>]
  /\ authKey = ""
  /\ resp = NoResponse
  /\ authResp = [Status |-> 0]
  /\ sent = {}
  /\ failure = "none"
  /\ op = "none"

\* no archive function runs
ZipOff ==
  /\ zpc = "off"
  /\ srcTree = [q \in {<<>>} |-> [dir |-> TRUE, data |-> <<>>]]
  /\ zpwC = "" /\ zpwX = ""
  /\ zarchive = <<>>
  /\ zidx = 0
  /\ fs = [q \in {<<>>} |-> [dir |-> TRUE, data |-> <<>>]]
  /\ touched = {}
  /\ zerr = "none"

TypeInit ==
  /\ ZipOff
  /\ ClientOff
  /\ now = 0
  /\ writer = "none"
  /\ readers = {}
  /\ pc = [t \in Tasks |-> "idle"]
  /\ loc = [t \in Tasks |-> NoLocals]
  /\ log = <<>>

\* the server process before main calls initTestKeys
Init ==
  /\ TypeInit
  /\ db = EmptyDb
  /\ db0 = EmptyDb
  /\ mainpc = "seed_valid"

Next ==
  \/ Tick
  \/ InitTestKey
  \/ InitInvalidKey
  \/ \E t \in Tasks :
       \/ AuthorizeBegin(t)
       \/ VkLock(t)
       \/ VkCheck(t)
       \/ VkIncr(t)
       \/ VkUnlock(t)
       \/ AuthorizeRespond(t)
       \/ AddKeyBegin(t)
       \/ AkLock(t)
       \/ AkInsert(t)
       \/ AkUnlock(t)
       \/ AddKeyRespond(t)
       \/ StatsBegin(t)
       \/ StRLock(t)
       \/ StIter(t)
       \/ StatsRespond(t)
       \/ StRUnlock(t)

Spec == Init /\ [][Next]_vars

\* the steps of the goroutine serving task t once its request has arrived
TaskStep(t) ==
  \/ VkLock(t) \/ VkCheck(t) \/ VkIncr(t) \/ VkUnlock(t) \/ AuthorizeRespond(t)
  \/ AkLock(t) \/ AkInsert(t) \/ AkUnlock(t) \/ AddKeyRespond(t)
  \/ StRLock(t) \/ StIter(t) \/ StatsRespond(t) \/ StRUnlock(t)

\* the Go scheduler runs every goroutine that can take a step
SpecFair == Spec /\ \A t \in Tasks : WF_vars(TaskStep(t))

\* ---------------------------------------- registry-level specification
\* validateKey and Stats over any registry: the records are drawn from bounded
\* sets instead of being seeded by initTestKeys
Quotas == { q \in (0 .. MaxQuota) \X (0 .. MaxQuota) : q[1] <= q[2] }

\* any record created at time 0 that expires at time 1 or at MaxTime
Records ==
  { KeyInfo(v, 0, e, q[1], q[2]) : v \in BOOLEAN, e \in {1, MaxTime}, q \in Quotas }

\* the empty registry, k1 alone with any record, or k1 with any record next
\* to k2 with any record of the largest quota and the latest expiry
RegStates ==
  {EmptyDb}
    \cup { Insert(EmptyDb, "k1", r) : r \in Records }
    \cup { Insert(Insert(EmptyDb, "k1", r[1]), "k2", r[2]) :
             r \in Records \X { x \in Records : x.maxUsage = MaxQuota /\ x.expiresAt = MaxTime } }

InitReg ==
  /\ TypeInit
  /\ db \in RegStates
  /\ db0 = db
  /\ mainpc = "serving"

NextReg ==
  \/ Tick
  \/ \E t \in Tasks :
       \/ AuthorizeBegin(t)
       \/ VkLock(t)
       \/ VkCheck(t)
       \/ VkIncr(t)
       \/ VkUnlock(t)
       \/ AuthorizeRespond(t)
       \/ StatsBegin(t)
       \/ StRLock(t)
       \/ StIter(t)
       \/ StatsRespond(t)
       \/ StRUnlock(t)

SpecReg == InitReg /\ [][NextReg]_vars

\* ------------------------------------------- sequential specification
\* one caller issuing validations one after the other: a request starts only
\* after the previous one was answered
NextCall(t) ==
  /\ pc[t] = "done"
  /\ Len(log) <= MaxQuota
  /\ pc' = [pc EXCEPT ![t] = "idle"]
  /\ UNCHANGED <<db, now, writer, readers, mainpc, loc, log, db0, cvars, zvars>>

NextSeq ==
  \/ Tick
  \/ AuthorizeBegin("t1")
  \/ VkLock("t1")
  \/ VkCheck("t1")
  \/ VkIncr("t1")
  \/ VkUnlock("t1")
  \/ AuthorizeRespond("t1")
  \/ NextCall("t1")

SpecSeq == InitReg /\ [][NextSeq]_vars

\* ================================================================ client
\* what ~/.xzip/key can hold: blanks and at most one key
Blank == {" ", "\n"}
FileContents == { <<>>, <<"\n">>, <<"k1">>, <<" ", "k1", "\n">> }
KeyFiles ==
  { [state |-> "missing", content |-> <<>>], [state |-> "unreadable", content |-> <<>>] }
    \cup { [state |-> "present", content |-> c] : c \in FileContents }

\* strings.TrimSpace
RECURSIVE TrimLeft(_)
TrimLeft(s) == IF s # <<>> /\ Head(s) \in Blank THEN TrimLeft(Tail(s)) ELSE s
RECURSIVE TrimRight(_)
TrimRight(s) ==
  IF s # <<>> /\ s[Len(s)] \in Blank THEN TrimRight(SubSeq(s, 1, Len(s) - 1)) ELSE s
TrimSpace(s) == TrimRight(TrimLeft(s))
\* string(data) of a content with at most one key
ContentString(s) == IF s = <<>> THEN "" ELSE s[1]

\* os.Args[1:]
Argvs ==
  { <<>>, <<"compress">>, <<"compress", "src", "dst.zip">>,
    <<"extract">>, <<"extract", "src.zip", "dst">>, <<"bogus">> }

\* peer certificates a server can present
CertXzipDNS == [DNSNames |-> {"xzip.com"}, CommonName |-> "lb-7"]
CertXzipCN == [DNSNames |-> {}, CommonName |-> "xzip.com"]
CertOther == [DNSNames |-> {"evil.example"}, CommonName |-> "evil.example"]
PeerChains ==
  { <<>>, <<CertOther>>, <<CertXzipDNS>>, <<CertXzipCN>>, <<CertOther, CertXzipCN>> }
\* resp.TLS: nil for a response that did not come over HTTPS
TLSStates == { [present |-> FALSE, PeerCertificates |-> <<>>] }
               \cup { [present |-> TRUE, PeerCertificates |-> c] : c \in PeerChains }

\* response bodies
Bodies ==
  { "not json", "{}", "{\"status\":1}", "{\"status\":-1}", "{\"status\":0}",
    "{\"status\":2}", "{\"status\":\"1\"}" }

\* json.Unmarshal(body, &authResp): the error, and the AuthResponse left behind
Unmarshal(body) ==
  CASE body = "{}" -> [err |-> FALSE, Status |-> 0]
    [] body = "{\"status\":1}" -> [err |-> FALSE, Status |-> 1]
    [] body = "{\"status\":-1}" -> [err |-> FALSE, Status |-> -1]
    [] body = "{\"status\":0}" -> [err |-> FALSE, Status |-> 0]
    [] body = "{\"status\":2}" -> [err |-> FALSE, Status |-> 2]
    [] OTHER -> [err |-> TRUE, Status |-> 0]

\* verifyServerCertificate: "" when the identity is accepted
verifyServerCertificate(tls) ==
  IF ~tls.present THEN "not https"
  ELSE IF \E i \in 1 .. Len(tls.PeerCertificates) :
            \/ "xzip.com" \in tls.PeerCertificates[i].DNSNames
            \/ tls.PeerCertificates[i].CommonName = "xzip.com"
       THEN ""
       ELSE "identity mismatch"

\* the status checks that end validateAuth: "" when the status is accepted
StatusError_RejectOnly(status) == IF status = -1 THEN "rejected" ELSE ""
StatusError(status) ==
  IF status = -1 THEN "rejected"
  ELSE IF status # 1 THEN "abnormal status"
  ELSE ""

\* main gives up: the message is printed and the process returns
GiveUp(why) ==
  /\ failure' = why
  /\ cpc' = "exit"

\* initKeyFile: a missing key file is created empty and reported as an error
CInitKeyFile ==
  /\ cpc = "init"
  /\ IF keyFile.state = "missing"
       THEN /\ keyFile' = [state |-> "present", content |-> <<>>]
            /\ GiveUp("key file created empty")
       ELSE /\ cpc' = "read"
            /\ UNCHANGED <<keyFile, failure>>
  /\ UNCHANGED <<variant, argv, authKey, resp, authResp, sent, op, svars, zvars>>

\* validateAuth: readAuthKey
CReadAuthKey ==
  /\ cpc = "read"
  /\ IF keyFile.state = "unreadable"
       THEN /\ GiveUp("cannot read key file")
            /\ UNCHANGED authKey
       ELSE /\ authKey' = ContentString(TrimSpace(keyFile.content))
            /\ cpc' = "post"
            /\ UNCHANGED failure
  /\ UNCHANGED <<variant, argv, keyFile, resp, authResp, sent, op, svars, zvars>>

\* validateAuth: client.Post with InsecureSkipVerify; the request, key
\* included, goes to whichever server answers the connection
CPost ==
  /\ cpc = "post"
  /\ \/ /\ GiveUp("network error")
        /\ UNCHANGED <<resp, sent>>
     \/ \E tls \in TLSStates, body \in Bodies, readable \in BOOLEAN :
          /\ resp' = [received |-> TRUE, TLS |-> tls, body |-> body, readable |-> readable]
          /\ sent' = sent \cup {tls}
          /\ cpc' = "verify"
          /\ UNCHANGED failure
  /\ UNCHANGED <<variant, argv, keyFile, authKey, authResp, op, svars, zvars>>

\* validateAuth: verifyServerCertificate(resp)
CVerify ==
  /\ cpc = "verify"
  /\ IF verifyServerCertificate(resp.TLS) # ""
       THEN GiveUp(verifyServerCertificate(resp.TLS))
       ELSE cpc' = "body" /\ UNCHANGED failure
  /\ UNCHANGED <<variant, argv, keyFile, authKey, resp, authResp, sent, op, svars, zvars>>

\* validateAuth: ioutil.ReadAll, json.Unmarshal and the status checks
CParse ==
  /\ cpc = "body"
  /\ IF ~resp.readable
       THEN GiveUp("cannot read response") /\ UNCHANGED authResp
       ELSE IF Unmarshal(resp.body).err
         THEN GiveUp("cannot parse response") /\ UNCHANGED authResp
         ELSE /\ authResp' = [Status |-> Unmarshal(resp.body).Status]
              /\ IF StatusError(authResp'.Status) # ""
                   THEN GiveUp(StatusError(authResp'.Status))
                   ELSE cpc' = "args" /\ UNCHANGED failure
  /\ UNCHANGED <<variant, argv, keyFile, authKey, resp, sent, op, svars, zvars>>

\* main after validateAuth returned nil: the argument checks and the switch
CDispatch ==
  /\ cpc = "args"
  /\ IF Len(argv) < 1 THEN GiveUp("usage")
     ELSE IF argv[1] \notin {"compress", "extract"} THEN GiveUp("unknown command")
     ELSE IF Len(argv) < 3 THEN GiveUp("missing arguments")
     ELSE /\ cpc' = IF variant = "password" THEN "prompt" ELSE "archive"
          /\ UNCHANGED failure
  /\ UNCHANGED <<variant, argv, keyFile, authKey, resp, authResp, sent, op, svars, zvars>>

\* the password-capable client asks for a password; getPassword can fail
CPrompt ==
  /\ cpc = "prompt"
  /\ \/ GiveUp("password input failed")
     \/ cpc' = "archive" /\ UNCHANGED failure
  /\ UNCHANGED <<variant, argv, keyFile, authKey, resp, authResp, sent, op, svars, zvars>>

\* compressToZip or extractFromZip is called
CArchive ==
  /\ cpc = "archive"
  /\ op' = argv[1]
  /\ cpc' = "exit"
  /\ UNCHANGED <<variant, argv, keyFile, authKey, resp, authResp, sent, failure, svars, zvars>>

InitClient ==
  /\ ZipOff
  /\ now = 0
  /\ writer = "none"
  /\ readers = {}
  /\ pc = [t \in Tasks |-> "idle"]
  /\ loc = [t \in Tasks |-> NoLocals]
  /\ log = <<>>
  /\ db = EmptyDb
  /\ db0 = EmptyDb
  /\ mainpc = "off"
  /\ cpc = "init"
  /\ variant \in {"password", "plain"}
  /\ argv \in Argvs
  /\ keyFile \in KeyFiles
  /\ authKey = ""
  /\ resp = NoResponse
  /\ authResp = [Status |-> 0]
  /\ sent = {}
  /\ failure = "none"
  /\ op = "none"

NextClient ==
  \/ CInitKeyFile
  \/ CReadAuthKey
  \/ CPost
  \/ CVerify
  \/ CParse
  \/ CDispatch
  \/ CPrompt
  \/ CArchive

SpecClient == InitClient /\ [][NextClient]_vars

\* ================================================ compress and extract
\* A path or an entry name is the sequence of its components between the
\* "/" separators: "d/a" is <<"d", "a">>, "d/" is <<"d", "">>, "/a" is
\* <<"", "a">> and "../a" is <<"..", "a">>.
Parent(p) == SubSeq(p, 1, Len(p) - 1)
IsPrefix(p, q) == Len(p) <= Len(q) /\ SubSeq(q, 1, Len(p)) = p

\* filepath.Clean of comps appended to the clean absolute path base, as the
\* operating system then resolves it
RECURSIVE CleanOnto(_, _)
CleanOnto(base, comps) ==
  IF comps = <<>> THEN base
  ELSE LET c == Head(comps) IN
       IF c \in {"", "."} THEN CleanOnto(base, Tail(comps))
       ELSE IF c = ".." THEN CleanOnto(IF base = <<>> THEN <<>> ELSE Parent(base), Tail(comps))
       ELSE CleanOnto(Append(base, c), Tail(comps))

\* the working directory of the client and the `target` argument "out"
Cwd == <<"w">>
TargetDir == CleanOnto(Cwd, <<"out">>)

\* filepath.Join(target, file.Name)
Join(target, name) == CleanOnto(target, name)

\* what a path holds
DirNode == [dir |-> TRUE, data |-> <<>>]
FileNode(data) == [dir |-> FALSE, data |-> data]

\* os.MkdirAll: creates the missing directories of p, stops at a component
\* that is a file
RECURSIVE MkdirAll(_, _)
MkdirAll(f, p) ==
  IF p = <<>> THEN f
  ELSE LET g == MkdirAll(f, Parent(p)) IN
       IF p \in DOMAIN g THEN g
       ELSE IF Parent(p) \in DOMAIN g /\ g[Parent(p)].dir
            THEN [q \in DOMAIN g \cup {p} |-> IF q = p THEN DirNode ELSE g[q]]
            ELSE g

\* os.OpenFile(path, O_WRONLY|O_CREATE|O_TRUNC) succeeds
CanOpen(f, p) ==
  /\ p # <<>>
  /\ Parent(p) \in DOMAIN f /\ f[Parent(p)].dir
  /\ p \in DOMAIN f => ~f[p].dir

\* io.Copy(targetFile, fileReader) into the truncated file
WriteFile(f, p, data) ==
  [q \in DOMAIN f \cup {p} |-> IF q = p THEN FileNode(data) ELSE f[q]]

\* the paths that differ between two states of the file system
Changed(f, g) == { q \in DOMAIN g : q \notin DOMAIN f \/ f[q] # g[q] }

\* compression method Deflate and its inverse
Deflate(data) == <<"deflate", data>>
Inflate(payload) == payload[2]

\* ------------------------------------------------- compressToZip
\* names a directory can hold, in the lexical order filepath.Walk visits them
NameOrder == <<"a", "d">>
\* contents of a regular file
Datas == {<<>>, <<1>>}
\* the paths, relative to `source`, a source tree may hold
TreePaths == {<<"a">>, <<"d">>, <<"d", "a">>}

Trees ==
  { t \in UNION { [S \cup {<<>>} -> {DirNode} \cup {FileNode(d) : d \in Datas}] : S \in SUBSET TreePaths } :
      /\ t[<<>>].dir
      /\ \A q \in DOMAIN t : q # <<>> => Parent(q) \in DOMAIN t /\ t[Parent(q)].dir }

\* filepath.Walk(source, fn): the root, then its entries in lexical order,
\* each directory followed by its content
RECURSIVE WalkFrom(_, _), WalkKids(_, _, _)
WalkFrom(tree, p) ==
  IF tree[p].dir THEN <<p>> \o WalkKids(tree, p, 1) ELSE <<p>>
WalkKids(tree, p, i) ==
  IF i > Len(NameOrder) THEN <<>>
  ELSE LET q == Append(p, NameOrder[i]) IN
       (IF q \in DOMAIN tree THEN WalkFrom(tree, q) ELSE <<>>) \o WalkKids(tree, p, i + 1)

\* relPath, _ := filepath.Rel(source, path); header.Name = relPath (+ "/")
HeaderName(p, isDir) ==
  LET relPath == IF p = <<>> THEN <<".">> ELSE p
  IN IF isDir THEN Append(relPath, "") ELSE relPath

\* archive.CreateHeader(header): the header built from the file info
CreateHeader(p, node) ==
  [name |-> HeaderName(p, node.dir), dirAttr |-> node.dir, enc |-> FALSE, pw |-> "",
   payload |-> Deflate(node.data)]

\* archive.Encrypt(header.Name, password): only the name is passed on
Encrypt(p, node, password) ==
  [name |-> HeaderName(p, node.dir), dirAttr |-> FALSE, enc |-> TRUE, pw |-> password,
   payload |-> Deflate(node.data)]

\* the entries compressToZip writes for tree
Compress(tree, password) ==
  LET order == WalkFrom(tree, <<>>)
  IN [i \in 1 .. Len(order) |->
        IF password # "" THEN Encrypt(order[i], tree[order[i]], password)
        ELSE CreateHeader(order[i], tree[order[i]])]

\* ------------------------------------------------- extractFromZip
\* file.FileInfo().IsDir(): the directory attribute of the header, or a name
\* that ends with "/"
IsDir(e) == e.dirAttr \/ (e.name # <<>> /\ e.name[Len(e.name)] = "")

\* file.OpenWithPassword(password) / file.Open() gives a reader
Opens(e, password) ==
  IF variant = "password"
    THEN ~e.enc \/ password = e.pw
    ELSE ~e.enc

\* a step of extractFromZip that leaves the file system as newFs
ZStep(nextPc, newFs, err) ==
  /\ zpc' = nextPc
  /\ fs' = newFs
  /\ touched' = touched \cup Changed(fs, newFs)
  /\ zerr' = err

\* compressToZip(source, target, password)
ZCompress ==
  /\ zpc = "compress"
  /\ zarchive' = Compress(srcTree, zpwC)
  /\ zpc' = "open"
  /\ UNCHANGED <<srcTree, zpwC, zpwX, zidx, fs, touched, zerr, svars, cvars>>

\* extractFromZip: zip.OpenReader(source); os.MkdirAll(target, 0755)
ZOpen ==
  /\ zpc = "open"
  /\ ZStep(IF zarchive = <<>> THEN "done" ELSE "extract", MkdirAll(fs, TargetDir), "none")
  /\ zidx' = 1
  /\ UNCHANGED <<srcTree, zpwC, zpwX, zarchive, svars, cvars>>

\* one iteration of `for _, file := range reader.File`
ZExtractEntry ==
  /\ zpc = "extract"
  /\ LET file == zarchive[zidx]
         path == Join(TargetDir, file.name)
         continue == IF zidx = Len(zarchive) THEN "done" ELSE "extract"
         made == MkdirAll(fs, Parent(path))
     IN IF IsDir(file)
          THEN /\ ZStep(continue, MkdirAll(fs, path), "none")
               /\ zidx' = zidx + 1
        ELSE IF variant = "password" /\ file.enc /\ zpwX = ""
          THEN /\ ZStep("done", fs, "password required")
               /\ UNCHANGED zidx
        ELSE IF ~Opens(file, zpwX)
          THEN /\ ZStep("done", fs, "cannot open entry")
               /\ UNCHANGED zidx
        ELSE IF ~CanOpen(made, path)
          THEN /\ ZStep("done", made, "cannot create file")
               /\ UNCHANGED zidx
        ELSE /\ zpc' = continue
             /\ fs' = WriteFile(made, path, Inflate(file.payload))
             /\ touched' = touched \cup Changed(fs, made) \cup {path}
             /\ zerr' = "none"
             /\ zidx' = zidx + 1
  /\ UNCHANGED <<srcTree, zpwC, zpwX, zarchive, svars, cvars>>

\* entry names an archive made elsewhere may carry
ForeignNames ==
  { <<"a">>, <<"d">>, <<"d", "a">>, <<"d", "">>, <<"", "a">>, <<"..", "a">>, <<"..", "e", "">> }
ForeignEntries ==
  { [name |-> n, dirAttr |-> FALSE, enc |-> x, pw |-> IF x THEN "pw" ELSE "",
     payload |-> Deflate(<<1>>)] : n \in ForeignNames, x \in BOOLEAN }
\* archives of at most MaxEntries entries
ForeignArchives == UNION { [1 .. n -> ForeignEntries] : n \in 0 .. MaxEntries }

\* the file system before extraction: the working directory with one file
\* in it, and no target directory
FsBefore ==
  [q \in {<<>>, Cwd, Append(Cwd, "a")} |-> IF q = Append(Cwd, "a") THEN FileNode(<<>>) ELSE DirNode]

InitZip ==
  /\ now = 0
  /\ writer = "none"
  /\ readers = {}
  /\ pc = [t \in Tasks |-> "idle"]
  /\ loc = [t \in Tasks |-> NoLocals]
  /\ log = <<>>
  /\ db = EmptyDb
  /\ db0 = EmptyDb
  /\ mainpc = "off"
  /\ cpc = "off"
  /\ variant \in {"password", "plain"}
  /\ argv = <<>>
  /\ keyFile = [state |-> "missing", content |-> <<>>]
  /\ authKey = ""
  /\ resp = NoResponse
  /\ authResp = [Status |-> 0]
  /\ sent = {}
  /\ failure = "none"
  /\ op = "none"
  /\ zpc \in {"compress", "open"}
  /\ IF zpc = "compress"
       THEN srcTree \in Trees /\ zarchive = <<>>
       ELSE srcTree = [q \in {<<>>} |-> DirNode] /\ zarchive \in ForeignArchives
  /\ zpwC \in IF variant = "password" /\ zpc = "compress" THEN {"", "pw"} ELSE {""}
  /\ zpwX \in IF variant = "password" THEN {"", "pw", "bad"} ELSE {""}
  /\ zidx = 0
  /\ fs = FsBefore
  /\ touched = {}
  /\ zerr = "none"

NextZip ==
  \/ ZCompress
  \/ ZOpen
  \/ ZExtractEntry

SpecZip == InitZip /\ [][NextZip]_vars

\* ======================================================== properties
\* the validateKey calls on key k that returned, in return order
KeyLog(k) == SelectSeq(log, LAMBDA e : e.key = k)
Accepts(k) == Len(SelectSeq(log, LAMBDA e : e.key = k /\ e.status = 1))
InValidate(t) == pc[t] \in {"vk_lock", "vk_check", "vk_incr", "vk_unlock"}
Quiescent(k) == \A t \in Tasks : ~(InValidate(t) /\ loc[t].key = k)
\* k started as a fresh record (valid, usageCount 0) and has not expired
Fresh(k) ==
  /\ k \in DOMAIN db0
  /\ db0[k].valid
  /\ db0[k].usageCount = 0
  /\ now < db0[k].expiresAt
\* task t is about to return from validateKey
Returning(t) == pc[t] = "vk_unlock"
\* the record of key in reg passes every check at time at
Eligible(reg, key, at) ==
  /\ key \in DOMAIN reg
  /\ reg[key].valid
  /\ at < reg[key].expiresAt
  /\ reg[key].usageCount < reg[key].maxUsage

\* C1: concurrent validations of one fresh key never push usageCount past
\* maxUsage, and once they have all returned exactly min(calls, maxUsage) of
\* them returned 1.
C1_NoRacePastCeiling ==
  /\ \A k \in DOMAIN db : db[k].usageCount <= db[k].maxUsage
  /\ \A k \in DOMAIN db0 :
       Fresh(k) /\ Quiescent(k) =>
         Accepts(k) = Min(Len(KeyLog(k)), db0[k].maxUsage)

C1_Witness ==
  \E k \in DOMAIN db0 :
    /\ Fresh(k) /\ Quiescent(k)
    /\ db0[k].maxUsage = 1
    /\ Len(KeyLog(k)) = 2
    /\ Accepts(k) = 1
    /\ \E i \in 1 .. Len(log) : log[i].key = k /\ log[i].overlap

\* C2: on a fresh, unexpired record with maxUsage N, the first N consecutive
\* validations return 1 and every later one returns -1.
C2_AtMostNUses ==
  \A k \in DOMAIN db0 :
    Fresh(k) =>
      \A i \in 1 .. Len(KeyLog(k)) :
        KeyLog(k)[i].status = IF i <= db0[k].maxUsage THEN 1 ELSE -1

C2_Witness ==
  \E k \in DOMAIN db0 :
    /\ Fresh(k)
    /\ db0[k].maxUsage = MaxQuota
    /\ Len(KeyLog(k)) = MaxQuota + 1
    /\ KeyLog(k)[MaxQuota + 1].status = -1

\* C3: a validation of a valid, unexpired record below its quota returns 1 and
\* changes nothing in the registry but that record's usageCount, which grows
\* by exactly 1.
C3_AcceptIncrementsByOne ==
  \A t \in Tasks :
    Returning(t) /\ Eligible(loc[t].pre, loc[t].key, loc[t].at) =>
      /\ loc[t].status = 1
      /\ db = [loc[t].pre EXCEPT ![loc[t].key].usageCount = @ + 1]

C3_Witness ==
  \E t \in Tasks :
    /\ Returning(t) /\ Eligible(loc[t].pre, loc[t].key, loc[t].at)
    /\ loc[t].status = 1
    /\ Cardinality(DOMAIN db) = 2

\* C4: a validation at or after the record's expiresAt, the instant of
\* expiresAt included, returns -1 and leaves the registry unchanged.
C4_RejectAtOrAfterExpiry ==
  \A t \in Tasks :
    ( /\ Returning(t)
      /\ loc[t].key \in DOMAIN loc[t].pre
      /\ loc[t].at >= loc[t].pre[loc[t].key].expiresAt ) =>
      /\ loc[t].status = -1
      /\ db = loc[t].pre

\* C5: a validation of a record with valid = false returns -1 and leaves the
\* registry unchanged, whatever the record's expiry and usage.
C5_DisabledRejected ==
  \A t \in Tasks :
    ( /\ Returning(t)
      /\ loc[t].key \in DOMAIN loc[t].pre
      /\ ~loc[t].pre[loc[t].key].valid ) =>
      /\ loc[t].status = -1
      /\ db = loc[t].pre

C5_Witness ==
  \E t \in Tasks :
    /\ Returning(t)
    /\ loc[t].key \in DOMAIN loc[t].pre
    /\ ~loc[t].pre[loc[t].key].valid
    /\ loc[t].at < loc[t].pre[loc[t].key].expiresAt
    /\ loc[t].pre[loc[t].key].usageCount < loc[t].pre[loc[t].key].maxUsage
    /\ loc[t].status = -1

\* C6: a validation of a record with usageCount = maxUsage returns -1 and
\* leaves the registry, usageCount included, as it was, however often it is
\* repeated.
C6_IdempotentRejection ==
  \A t \in Tasks :
    ( /\ Returning(t)
      /\ loc[t].key \in DOMAIN loc[t].pre
      /\ loc[t].pre[loc[t].key].usageCount = loc[t].pre[loc[t].key].maxUsage ) =>
      /\ loc[t].status = -1
      /\ db = loc[t].pre
      /\ db[loc[t].key].usageCount = db[loc[t].key].maxUsage

\* the second rejected call in a row on a valid, unexpired, exhausted record
C6_Witness ==
  \E t \in Tasks :
    /\ Returning(t)
    /\ loc[t].key \in DOMAIN loc[t].pre
    /\ loc[t].pre[loc[t].key].valid
    /\ loc[t].at < loc[t].pre[loc[t].key].expiresAt
    /\ loc[t].pre[loc[t].key].usageCount = loc[t].pre[loc[t].key].maxUsage
    /\ loc[t].status = -1
    /\ Len(log) >= 1
    /\ log[Len(log)] = [key |-> loc[t].key, status |-> -1, overlap |-> FALSE]

\* C7: a validation of a key that is not in the registry, the empty string
\* included, returns -1, inserts no record and modifies none.
C7_UnknownKeyRejected ==
  \A t \in Tasks :
    Returning(t) /\ loc[t].key \notin DOMAIN loc[t].pre =>
      /\ loc[t].status = -1
      /\ db = loc[t].pre

C7_Witness ==
  \E t \in Tasks :
    /\ Returning(t)
    /\ loc[t].key = ""
    /\ DOMAIN loc[t].pre # {}
    /\ loc[t].status = -1

\* C9: usageCount of a key in the registry never decreases, whatever
\* operation runs.
C9_UsageNeverDecreases ==
  [][\A k \in DOMAIN db :
       k \in DOMAIN db' /\ db'[k].usageCount >= db[k].usageCount]_vars

\* C10: when the scan of Stats is over, total_keys is the number of records,
\* valid_keys the number of records with valid = true whose expiresAt is
\* strictly after the clock value read for them, total_usage the sum of all
\* usageCount, and the registry is as it was when the scan began.
C10_StatsAggregates ==
  \A t \in Tasks :
    pc[t] = "st_respond" =>
      /\ loc[t].totalKeys = Cardinality(DOMAIN db)
      /\ loc[t].validKeys =
           Cardinality({ k \in DOMAIN db :
                          db[k].valid /\ loc[t].visitAt[k] < db[k].expiresAt })
      /\ loc[t].totalUsage = SumUsage(db, DOMAIN db)
      /\ db = loc[t].pre

\* two records, one of them valid but visited at the very instant it expires
C10_Witness ==
  \E t \in Tasks :
    /\ pc[t] = "st_respond"
    /\ loc[t].totalKeys = 2
    /\ loc[t].validKeys = 1
    /\ loc[t].totalUsage >= 1
    /\ \E k \in DOMAIN db : db[k].valid /\ loc[t].visitAt[k] = db[k].expiresAt

\* the failures validateAuth reports
AuthFailures ==
  { "cannot read key file", "network error", "not https", "identity mismatch",
    "cannot read response", "cannot parse response", "rejected", "abnormal status" }

\* a response arrived, a peer certificate names xzip.com, and the body was
\* read and parsed to status 1
AuthSucceeded ==
  /\ resp.received
  /\ resp.TLS.present
  /\ \E i \in 1 .. Len(resp.TLS.PeerCertificates) :
       \/ "xzip.com" \in resp.TLS.PeerCertificates[i].DNSNames
       \/ resp.TLS.PeerCertificates[i].CommonName = "xzip.com"
  /\ resp.readable
  /\ resp.body = "{\"status\":1}"
  /\ authResp.Status = 1

\* C8: compress or extract is started only in a run whose validateAuth
\* succeeded, and a run that failed authorization ends with no archive
\* operation started.
C8_ArchiveOnlyAfterAuth ==
  /\ cpc = "archive" \/ op # "none" => AuthSucceeded /\ failure = "none"
  /\ failure \in AuthFailures => op = "none" /\ cpc = "exit"

C8_Witness ==
  /\ op = "extract"
  /\ variant = "password"
  /\ AuthSucceeded

\* ---------------------------------------------------------------------
\* the steps task t takes while it handles a request whose body failed to decode
MalformedStep(t) ==
  /\ pc'[t] # pc[t]
  /\ loc[t].cause = "malformed" \/ loc'[t].cause = "malformed"

\* C11: every step of a POST /authorize whose body does not parse leaves the
\* registry and the lock untouched, and the request is answered with a JSON
\* body of status -1 rather than dropped.
C11_MalformedRejected ==
  [][\A t \in Tasks :
       MalformedStep(t) =>
         /\ db' = db /\ writer' = writer /\ readers' = readers
         /\ pc[t] = "idle" =>
              /\ pc'[t] = "ah_respond"
              /\ loc'[t].status = -1
              /\ loc'[t].resp = "status"
         /\ pc[t] # "idle" => pc[t] = "ah_respond" /\ pc'[t] = "done"]_vars

C11_Witness ==
  \E t \in Tasks :
    /\ pc[t] = "ah_respond" /\ loc[t].cause = "malformed"
    /\ loc[t].status = -1
    /\ \E u \in Tasks \ {t} : writer = u

\* ---------------------------------------------------------------------
\* what the caller of /authorize receives: status line and JSON body
Response(t) == [http |-> loc[t].http, shape |-> loc[t].resp, status |-> loc[t].status]

RejectCauses == {"notfound", "disabled", "expired", "exceeded"}
Rejected(t) == pc[t] = "ah_respond" /\ loc[t].cause \in RejectCauses

\* C12: any two rejected POSTs, whatever the cause of each rejection
\* (unknown, disabled, expired, quota exhausted), receive the same response:
\* same status line, same body shape, status -1.
C12_RejectionsIndistinguishable ==
  \A t, u \in Tasks :
    Rejected(t) /\ Rejected(u) =>
      /\ Response(t) = Response(u)
      /\ Response(t).status = -1

C12_Witness ==
  \E t, u \in Tasks :
    /\ Rejected(t) /\ Rejected(u)
    /\ loc[t].cause = "expired" /\ loc[u].cause = "exceeded"

\* ---------------------------------------------------------------------
\* the positions at which a handler encodes and sends its response
Responding == {"ah_respond", "ak_respond", "st_respond"}
HoldsLock(t) == writer = t \/ t \in readers

\* C13: no handler (authorize, addkey, stats) holds the registry lock, shared
\* or exclusive, at the moment it writes its response.
C13_NoLockWhileResponding ==
  \A t \in Tasks : pc[t] \in Responding => ~HoldsLock(t)

\* ---------------------------------------------------------------------
\* the key file is absent, or holds nothing but white space
NoUsableKey ==
  /\ keyFile.state \in {"missing", "present"}
  /\ TrimSpace(keyFile.content) = <<>>

\* the failure initKeyFile reports
ConfigFailures == {"key file created empty"}

\* C14: a client run whose key file is missing, empty or white space only
\* starts no archive operation and ends as a configuration error, whatever
\* the endpoint answers.
C14_NoKeyNoArchive ==
  NoUsableKey =>
    /\ op = "none" /\ cpc # "archive"
    /\ cpc = "exit" => failure \in ConfigFailures

\* ---------------------------------------------------------------------
\* task t has just stored its new record and still holds the lock
Issued(t) == pc[t] = "ak_unlock"

\* C15: an issuance adds exactly one record under a key that was not present
\* before, with valid = true, usageCount = 0, maxUsage = 1000 and expiresAt =
\* issuance time + one year, leaves every other record as it was, and the
\* key it returns validates at once.
C15_IssueAddsFreshRecord ==
  \A t \in Tasks :
    Issued(t) =>
      LET k == loc[t].newKey
          pre == loc[t].pre
      IN /\ k \notin DOMAIN pre
         /\ DOMAIN db = DOMAIN pre \cup {k}
         /\ \A j \in DOMAIN pre \ {k} : db[j] = pre[j]
         /\ db[k].valid /\ db[k].usageCount = 0 /\ db[k].maxUsage = 1000
         /\ db[k].expiresAt = loc[t].at + 365 * 24 * Hour
         /\ Decide(db, k, now) = "ok"

\* ---------------------------------------------------------------------
\* the scan of task t is over and its totals are what the response carries
Scanned(t) == pc[t] \in {"st_respond", "st_runlock"}

\* C16: the totals a Stats call reports, even when validations and issuances
\* run beside it, are the record count and the usage sum of one registry
\* state that existed during the call: the state at which the call took the
\* read lock.
C16_StatsSnapshot ==
  \A t \in Tasks :
    Scanned(t) =>
      /\ loc[t].totalKeys = Cardinality(DOMAIN loc[t].pre)
      /\ loc[t].totalUsage = SumUsage(loc[t].pre, DOMAIN loc[t].pre)

\* a scan of two records is over while another request waits for the lock
C16_Witness ==
  \E t, u \in Tasks :
    /\ Scanned(t) /\ loc[t].totalKeys = 2
    /\ pc[u] \in {"vk_lock", "ak_lock"}

\* ---------------------------------------------------------------------
\* the request of task t has arrived and its handler has not returned
Started(t) == pc[t] \notin {"idle", "done"}

RoundTrip == zarchive = Compress(srcTree, zpwC)

\* the tree found under the target directory, by paths relative to it
ExtractedTree ==
  LET under == { q \in DOMAIN fs : IsPrefix(TargetDir, q) }
      rel(q) == SubSeq(q, Len(TargetDir) + 1, Len(q))
  IN [r \in { rel(q) : q \in under } |-> fs[TargetDir \o r]]

\* extraction of the archive of srcTree is over
Extracted == zpc = "done" /\ RoundTrip

\* C18: compressToZip followed by extractFromZip into an empty target gives
\* back the tree, same relative paths and same bytes, when both are given the
\* same password (or none); and extraction with no password of an archive
\* written with a password fails with an error.
C18_RoundTrip ==
  Extracted =>
    /\ zpwX = zpwC => zerr = "none" /\ ExtractedTree = srcTree
    /\ zpwC # "" /\ zpwX = "" => zerr # "none"

\* the first half of C18 alone
SamePasswordRoundTrip ==
  Extracted /\ zpwX = zpwC => zerr = "none" /\ ExtractedTree = srcTree

\* ---------------------------------------------------------------------
\* path p is the target directory or lies below it
InsideTarget(p) == IsPrefix(TargetDir, p)

\* C20: whatever names the entries of an archive carry, ".." components and
\* absolute names included, extractFromZip creates or overwrites nothing
\* outside its target directory.
C20_ExtractStaysInTarget ==
  \A p \in touched : InsideTarget(p)

\* ---------------------------------------------------------------------
\* C19: the license key is sent only to an endpoint whose certificate has
\* been checked and names xzip.com (DNS name or common name); it never
\* reaches an endpoint that fails the identity check.
C19_KeyOnlyToVerifiedEndpoint ==
  \A tls \in sent : verifyServerCertificate(tls) = ""

====
